---- MODULE Spec2Model ----
(***************************************************************************)
(* A model of src/main.py: the SparseMatrix class (a dict of non-zero      *)
(* entries keyed by (row, col), with fixed extents), its text format       *)
(* (load_from / __str__) and its three operations (+, -, @).               *)
(*                                                                         *)
(* The caller holds up to MaxObjs matrices by name (heap[1..bound]) and    *)
(* makes one call at a time.  A matrix that a call returns is a fresh      *)
(* object (heap[bound + 1]); before its next call the caller either binds  *)
(* it to a name (Keep) or lets it go (Discard).                            *)
(* Python integers are unbounded, so values are plain integers.            *)
(* A dict is a function from a finite set of <<row, col>> keys; the order  *)
(* in which a dict is iterated is chosen freely by each action, which      *)
(* covers the insertion order Python uses.                                 *)
(***************************************************************************)
EXTENDS Integers, Sequences, FiniteSets, TLC

VARIABLES heap, bound, outcome

vars == <<heap, bound, outcome>>

\* ------------------------------------------------------------- bounds
MaxDim == 2
MaxVal == 1
MaxObjs == 2
MaxNnz == 2
MaxBody == 2

Dims == 0..MaxDim
Coords == -1..MaxDim
Vals == -MaxVal..MaxVal

\* ------------------------------------------------------------- exceptions
NoError == [type |-> "", msg |-> ""]
IndexOutOfBounds == [type |-> "IndexError", msg |-> "Invalid matrix index"]
DimensionMismatch == [type |-> "ValueError", msg |-> "Matrix dimensions must match"]
DimensionAlignmentMismatch ==
  [type |-> "ValueError", msg |-> "Matrix dimensions not aligned for multiplication"]

\* ------------------------------------------------------------- the class
EmptyDict == <<>>

SparseMatrix(rows, cols) == [rows |-> rows, cols |-> cols, data |-> EmptyDict]

NoMatrix == SparseMatrix(0, 0)

get(self, row, col) ==
  IF <<row, col>> \in DOMAIN self.data THEN self.data[<<row, col>>] ELSE 0

DictPop(d, k) == [q \in DOMAIN d \ {k} |-> d[q]]

DictStore(d, k, v) == [q \in DOMAIN d \cup {k} |-> IF q = k THEN v ELSE d[q]]

\* set with the zero test lost: a zero is stored like any other value
setKeepsZero(self, row, col, value) ==
  IF ~(0 <= row /\ row < self.rows /\ 0 <= col /\ col < self.cols)
  THEN [err |-> IndexOutOfBounds, m |-> self]
  ELSE [err |-> NoError, m |-> [self EXCEPT !.data = DictStore(@, <<row, col>>, value)]]

\* set with the bounds test lost
setUnchecked(self, row, col, value) ==
  IF value = 0
  THEN [err |-> NoError, m |-> [self EXCEPT !.data = DictPop(@, <<row, col>>)]]
  ELSE [err |-> NoError, m |-> [self EXCEPT !.data = DictStore(@, <<row, col>>, value)]]

\* set returns the exception it raises (NoError when none) and the object
\* as the call leaves it.
set(self, row, col, value) ==
  IF ~(0 <= row /\ row < self.rows /\ 0 <= col /\ col < self.cols)
  THEN [err |-> IndexOutOfBounds, m |-> self]
  ELSE IF value = 0
       THEN [err |-> NoError, m |-> [self EXCEPT !.data = DictPop(@, <<row, col>>)]]
       ELSE [err |-> NoError, m |-> [self EXCEPT !.data = DictStore(@, <<row, col>>, value)]]

\* The orders in which a dict with key set S can be iterated.
Orders(S) ==
  {o \in [1..Cardinality(S) -> S] : \A i, j \in 1..Cardinality(S) : o[i] = o[j] => i = j}

\* for (r, c), val in src.items(): result.set(r, c, val)
RECURSIVE CopyLoop(_, _, _)
CopyLoop(res, src, ord) ==
  IF res.err # NoError \/ ord = <<>> THEN res
  ELSE LET k == Head(ord)
       IN CopyLoop(set(res.m, k[1], k[2], src[k]), src, Tail(ord))

\* the term stored in place of the running sum
AccumulateOverwrite(result, r, c, term) == set(result, r, c, term)

\* result.set(r, c, result.get(r, c) + term)
Accumulate(result, r, c, term) == set(result, r, c, get(result, r, c) + term)

\* for (r, c), val in src.items(): result.set(r, c, result.get(r, c) + sign * val)
RECURSIVE AccLoop(_, _, _, _)
AccLoop(res, src, ord, sign) ==
  IF res.err # NoError \/ ord = <<>> THEN res
  ELSE LET k == Head(ord)
       IN AccLoop(Accumulate(res.m, k[1], k[2], sign * src[k]), src, Tail(ord), sign)

\* __add__ with the test of the columns lost
addRowsOnly(self, other, ordS, ordO) ==
  IF self.rows # other.rows
  THEN [err |-> DimensionMismatch, m |-> NoMatrix, made |-> FALSE]
  ELSE LET result == SparseMatrix(self.rows, self.cols)
           copied == CopyLoop([err |-> NoError, m |-> result], self.data, ordS)
           summed == AccLoop(copied, other.data, ordO, 1)
       IN [err |-> summed.err, m |-> summed.m, made |-> TRUE]

__add__(self, other, ordS, ordO) ==
  IF self.rows # other.rows \/ self.cols # other.cols
  THEN [err |-> DimensionMismatch, m |-> NoMatrix, made |-> FALSE]
  ELSE LET result == SparseMatrix(self.rows, self.cols)
           copied == CopyLoop([err |-> NoError, m |-> result], self.data, ordS)
           summed == AccLoop(copied, other.data, ordO, 1)
       IN [err |-> summed.err, m |-> summed.m, made |-> TRUE]

\* __sub__ as a copy of __add__ with the sign left unchanged
subPastedFromAdd(self, other, ordS, ordO) == __add__(self, other, ordS, ordO)

__sub__(self, other, ordS, ordO) ==
  IF self.rows # other.rows \/ self.cols # other.cols
  THEN [err |-> DimensionMismatch, m |-> NoMatrix, made |-> FALSE]
  ELSE LET result == SparseMatrix(self.rows, self.cols)
           copied == CopyLoop([err |-> NoError, m |-> result], self.data, ordS)
           summed == AccLoop(copied, other.data, ordO, -1)
       IN [err |-> summed.err, m |-> summed.m, made |-> TRUE]

\* other_map: row of other -> list of <<col, val>>, in other's iteration order
OtherMap(other, ordO) ==
  [r \in {k[1] : k \in DOMAIN other.data} |->
     LET ks == SelectSeq(ordO, LAMBDA k : k[1] = r)
     IN [n \in 1..Len(ks) |-> <<ks[n][2], other.data[ks[n]]>>]]

\* for j, val2 in other_map[k]: result.set(i, j, result.get(i, j) + val1 * val2)
RECURSIVE RowLoop(_, _, _, _)
RowLoop(res, i, val1, lst) ==
  IF res.err # NoError \/ lst = <<>> THEN res
  ELSE LET j == Head(lst)[1]
           val2 == Head(lst)[2]
       IN RowLoop(Accumulate(res.m, i, j, val1 * val2), i, val1, Tail(lst))

\* for (i, k), val1 in self.data.items(): if k in other_map: ...
RECURSIVE MulLoop(_, _, _, _)
MulLoop(res, src, ord, other_map) ==
  IF res.err # NoError \/ ord = <<>> THEN res
  ELSE LET i == Head(ord)[1]
           k == Head(ord)[2]
           step == IF k \in DOMAIN other_map
                   THEN RowLoop(res, i, src[Head(ord)], other_map[k])
                   ELSE res
       IN MulLoop(step, src, Tail(ord), other_map)

__matmul__(self, other, ordS, ordO) ==
  IF self.cols # other.rows
  THEN [err |-> DimensionAlignmentMismatch, m |-> NoMatrix, made |-> FALSE]
  ELSE LET result == SparseMatrix(self.rows, other.cols)
           prod == MulLoop([err |-> NoError, m |-> result], self.data, ordS,
                           OtherMap(other, ordO))
       IN [err |-> prod.err, m |-> prod.m, made |-> TRUE]

\* ------------------------------------------------------------- text
\* A text is a sequence of one-character strings.  The input alphabet is the
\* characters of the lines below: digits, signs, blanks, "=", ",", brackets
\* and a few letters.
Newline == "\n"

Whitespace == {" ", Newline}

Digits == <<"0", "1", "2", "3", "4", "5", "6", "7", "8", "9">>

DigitSet == {Digits[i] : i \in 1..10}

DigitVal(ch) == (CHOOSE i \in 1..10 : Digits[i] = ch) - 1

SetMin(S) == CHOOSE x \in S : \A y \in S : x <= y

SetMax(S) == CHOOSE x \in S : \A y \in S : y <= x

\* s.strip()
strip(s) ==
  LET keep == {i \in 1..Len(s) : s[i] \notin Whitespace}
  IN IF keep = {} THEN <<>> ELSE SubSeq(s, SetMin(keep), SetMax(keep))

\* s.startswith(p)
startswith(s, p) == Len(s) >= Len(p) /\ SubSeq(s, 1, Len(p)) = p

\* s.endswith(p)
endswith(s, p) == Len(s) >= Len(p) /\ SubSeq(s, Len(s) - Len(p) + 1, Len(s)) = p

\* s.split(sep), sep one character
RECURSIVE split(_, _)
split(s, sep) ==
  LET at == {i \in 1..Len(s) : s[i] = sep}
  IN IF at = {} THEN <<s>>
     ELSE <<SubSeq(s, 1, SetMin(at) - 1)>> \o split(SubSeq(s, SetMin(at) + 1, Len(s)), sep)

RECURSIVE NatOf(_)
NatOf(ds) ==
  IF ds = <<>> THEN 0 ELSE 10 * NatOf(SubSeq(ds, 1, Len(ds) - 1)) + DigitVal(ds[Len(ds)])

\* int(x): blanks around the number and one sign are accepted; anything else
\* but digits raises ValueError (ok = FALSE).
int(x) ==
  LET t == strip(x)
      signed == t # <<>> /\ t[1] \in {"-", "+"}
      ds == IF signed THEN Tail(t) ELSE t
      ok == ds # <<>> /\ \A i \in 1..Len(ds) : ds[i] \in DigitSet
  IN [ok |-> ok,
      val |-> IF ~ok THEN 0 ELSE IF signed /\ t[1] = "-" THEN -NatOf(ds) ELSE NatOf(ds)]

RECURSIVE FormatNat(_)
FormatNat(n) ==
  IF n < 10 THEN <<Digits[n + 1]>> ELSE FormatNat(n \div 10) \o <<Digits[(n % 10) + 1]>>

\* f"{n}" with the sign lost
FormatIntUnsigned(n) == IF n < 0 THEN FormatNat(-n) ELSE FormatNat(n)

\* f"{n}"
FormatInt(n) == IF n < 0 THEN <<"-">> \o FormatNat(-n) ELSE FormatNat(n)

\* "\n".join(lines)
RECURSIVE join(_)
join(lines) ==
  IF lines = <<>> THEN <<>>
  ELSE IF Len(lines) = 1 THEN lines[1]
  ELSE lines[1] \o <<Newline>> \o join(Tail(lines))

\* sorted(keys): tuples compare by row, then by column
KeyLess(p, q) == p[1] < q[1] \/ (p[1] = q[1] /\ p[2] < q[2])

RECURSIVE sorted(_)
sorted(S) ==
  IF S = {} THEN <<>>
  ELSE LET least == CHOOSE p \in S : \A q \in S \ {p} : KeyLess(p, q)
       IN <<least>> \o sorted(S \ {least})

RowsPrefix == <<"r", "o", "w", "s", "=">>

ColsPrefix == <<"c", "o", "l", "s", "=">>

\* f"({r}, {c}, {self.data[(r, c)]})"
EntryLine(r, c, v) ==
  <<"(">> \o FormatInt(r) \o <<",", " ">> \o FormatInt(c) \o <<",", " ">> \o FormatInt(v)
    \o <<")">>

__str__(self) ==
  LET keys == sorted(DOMAIN self.data)
      output == <<RowsPrefix \o FormatInt(self.rows), ColsPrefix \o FormatInt(self.cols)>>
                  \o [n \in 1..Len(keys) |->
                        EntryLine(keys[n][1], keys[n][2], self.data[keys[n]])]
  IN join(output)

MalformedHeader == [type |-> "ValueError", msg |-> "Input file has wrong format"]
MalformedEntry == [type |-> "ValueError", msg |-> "Invalid file format"]
EntryOutOfBounds == [type |-> "ValueError", msg |-> "Invalid file format"]
SourceUnavailable == [type |-> "Exception", msg |-> "Failed to open file"]

\* The content of a path that cannot be opened.
Unreadable == <<"ENOENT">>

\* lines = [line.strip() for line in f if line.strip()]
ReadLines(src) ==
  LET raw == split(src, Newline)
      kept == SelectSeq(raw, LAMBDA l : strip(l) # <<>>)
  IN [n \in 1..Len(kept) |-> strip(kept[n])]

\* r, c, v = map(lambda x: int(x.strip()), entry[1:-1].split(","))
ParseEntry(entry) ==
  LET parts == split(SubSeq(entry, 2, Len(entry) - 1), ",")
      nums == [n \in 1..Len(parts) |-> int(strip(parts[n]))]
      ok == Len(parts) = 3 /\ \A n \in 1..Len(parts) : nums[n].ok
  IN [ok |-> ok,
      r |-> IF ok THEN nums[1].val ELSE 0,
      c |-> IF ok THEN nums[2].val ELSE 0,
      v |-> IF ok THEN nums[3].val ELSE 0]

\* The pass without its test of the coordinates: set makes the only test
EntryStepNoRangeTest(matrix, entry, num_rows, num_cols) ==
  LET t == ParseEntry(entry)
  IN IF ~(startswith(entry, <<"(">>) /\ endswith(entry, <<")">>))
     THEN [err |-> MalformedEntry, m |-> matrix]
     ELSE IF ~t.ok
     THEN [err |-> MalformedEntry, m |-> matrix]
     ELSE set(matrix, t.r, t.c, t.v)

\* One pass of the loop over lines[2:]: the checks on entry, then matrix.set
EntryStep(matrix, entry, num_rows, num_cols) ==
  LET t == ParseEntry(entry)
  IN IF ~(startswith(entry, <<"(">>) /\ endswith(entry, <<")">>))
     THEN [err |-> MalformedEntry, m |-> matrix]
     ELSE IF ~t.ok
     THEN [err |-> MalformedEntry, m |-> matrix]
     ELSE IF ~(0 <= t.r /\ t.r < num_rows /\ 0 <= t.c /\ t.c < num_cols)
     THEN [err |-> EntryOutOfBounds, m |-> matrix]
     ELSE set(matrix, t.r, t.c, t.v)

\* for entry in lines[2:]: ...
RECURSIVE BodyLoop(_, _, _, _)
BodyLoop(res, entries, num_rows, num_cols) ==
  IF res.err # NoError \/ entries = <<>> THEN res
  ELSE BodyLoop(EntryStep(res.m, Head(entries), num_rows, num_cols),
                Tail(entries), num_rows, num_cols)

\* The two header lines: the prefix tests, then int() of what follows the
\* first "=" up to the next "=" or the end of the line.
ParseHeader(lines) ==
  IF Len(lines) < 2 \/ ~startswith(lines[1], RowsPrefix) \/ ~startswith(lines[2], ColsPrefix)
  THEN [ok |-> FALSE, num_rows |-> 0, num_cols |-> 0]
  ELSE LET num_rows == int(split(lines[1], "=")[2])
           num_cols == int(split(lines[2], "=")[2])
       IN [ok |-> num_rows.ok /\ num_cols.ok, num_rows |-> num_rows.val,
           num_cols |-> num_cols.val]

load_from(src) ==
  IF src = Unreadable
  THEN [err |-> SourceUnavailable, m |-> NoMatrix, made |-> FALSE]
  ELSE LET lines == ReadLines(src)
           header == ParseHeader(lines)
       IN IF ~header.ok
          THEN [err |-> MalformedHeader, m |-> NoMatrix, made |-> FALSE]
          ELSE LET matrix == SparseMatrix(header.num_rows, header.num_cols)
                   filled == BodyLoop([err |-> NoError, m |-> matrix],
                                      SubSeq(lines, 3, Len(lines)),
                                      header.num_rows, header.num_cols)
               IN [err |-> filled.err, m |-> filled.m, made |-> TRUE]

\* ------------------------------------------------------------- input texts
\* first lines:
\*   'rows=2'
\*   'rows=0'
\*   'rows=-1'
\*   'rows=1=2'
\*   'rows=x'
\*   'rows='
\*   'rows2'
\*   '  rows=2 '
\*   'cols=2'
RowsLines ==
  { <<"r", "o", "w", "s", "=", "2">>,
    <<"r", "o", "w", "s", "=", "0">>,
    <<"r", "o", "w", "s", "=", "-", "1">>,
    <<"r", "o", "w", "s", "=", "1", "=", "2">>,
    <<"r", "o", "w", "s", "=", "x">>,
    <<"r", "o", "w", "s", "=">>,
    <<"r", "o", "w", "s", "2">>,
    <<" ", " ", "r", "o", "w", "s", "=", "2", " ">>,
    <<"c", "o", "l", "s", "=", "2">> }

\* second lines:
\*   'cols=2'
\*   'cols=1'
\*   'cols=-1'
\*   'cols=y'
\*   'rows=2'
ColsLines ==
  { <<"c", "o", "l", "s", "=", "2">>,
    <<"c", "o", "l", "s", "=", "1">>,
    <<"c", "o", "l", "s", "=", "-", "1">>,
    <<"c", "o", "l", "s", "=", "y">>,
    <<"r", "o", "w", "s", "=", "2">> }

\* entry lines:
\*   '(0, 0, 1)'
\*   '(0,0,-1)'
\*   '( 0 , 1 , 1 )'
\*   '(1, 0, 12)'
\*   '(0, 0, 0)'
\*   '(5, 0, 1)'
\*   '(0, -1, 1)'
\*   '(1,2)'
\*   '(1,2,3,4)'
\*   '[0, 0, 1]'
\*   '(0, 0, 1'
\*   '(0, a, 1)'
\*   ''
BodyLines ==
  { <<"(", "0", ",", " ", "0", ",", " ", "1", ")">>,
    <<"(", "0", ",", "0", ",", "-", "1", ")">>,
    <<"(", " ", "0", " ", ",", " ", "1", " ", ",", " ", "1", " ", ")">>,
    <<"(", "1", ",", " ", "0", ",", " ", "1", "2", ")">>,
    <<"(", "0", ",", " ", "0", ",", " ", "0", ")">>,
    <<"(", "5", ",", " ", "0", ",", " ", "1", ")">>,
    <<"(", "0", ",", " ", "-", "1", ",", " ", "1", ")">>,
    <<"(", "1", ",", "2", ")">>,
    <<"(", "1", ",", "2", ",", "3", ",", "4", ")">>,
    <<"[", "0", ",", " ", "0", ",", " ", "1", "]">>,
    <<"(", "0", ",", " ", "0", ",", " ", "1">>,
    <<"(", "0", ",", " ", "a", ",", " ", "1", ")">>,
    <<>> }

Bodies == UNION {[1..n -> BodyLines] : n \in 0..MaxBody}

\* Each line ends with a newline, as in a file written by an editor.
RECURSIVE FileOf(_)
FileOf(lines) ==
  IF lines = <<>> THEN <<>> ELSE lines[1] \o <<Newline>> \o FileOf(Tail(lines))

\* Files with no line, with one header line, and with both header lines
\* followed by up to MaxBody entry lines; and a path that cannot be opened.
Texts ==
  {Unreadable, <<>>}
    \cup {FileOf(<<h1>>) : h1 \in RowsLines}
    \cup {FileOf(<<h1, h2>> \o body) : h1 \in RowsLines, h2 \in ColsLines, body \in Bodies}

\* A few files the caller loads while it works with matrices.
SampleTexts ==
  { FileOf(<<<<"r", "o", "w", "s", "=", "2">>, <<"c", "o", "l", "s", "=", "2">>,
             <<"(", "0", ",", " ", "0", ",", " ", "1", ")">>,
             <<"(", "1", ",", " ", "1", ",", " ", "-", "1", "2", ")">>>>),
    FileOf(<<<<"r", "o", "w", "s", "=", "2">>, <<"c", "o", "l", "s", "=", "2">>, <<"(", "0", ",", " ", "1", ",", " ", "1", ")">>, <<"(", "0", ",", " ", "1", ",", " ", "0", ")">>>>),
    FileOf(<<<<"r", "o", "w", "s", "=", "1">>, <<"c", "o", "l", "s", "=", "2">>, <<>>, <<"(", "0", ",", " ", "0", ",", " ", "1", ")">>, <<"(", "0", ",", "0", ",", "-", "1", ")">>>>),
    FileOf(<<<<"r", "o", "w", "s", "=", "-", "1">>, <<"c", "o", "l", "s", "=", "2">>>>),
    FileOf(<<<<"r", "o", "w", "s", "=", "2">>, <<"c", "o", "l", "s", "=", "2">>, <<"(", "5", ",", " ", "0", ",", " ", "1", ")">>>>),
    FileOf(<<<<"r", "o", "w", "s", "=", "2">>, <<"c", "o", "l", "s", "=", "2">>, <<"(", "1", ",", "2", ")">>>>),
    FileOf(<<<<"r", "o", "w", "s", "=", "x">>, <<"c", "o", "l", "s", "=", "2">>>>) }

\* ------------------------------------------------------------- the caller
\* What the last call left: its arguments (for the constructor, r and c are
\* the extents), the exception it raised, the object (ret), value (val) or
\* text it returned, and whether it constructed a matrix (made).  For
\* load_from, text is the content of the file read.
NoCall ==
  [op |-> "none", a |-> 0, b |-> 0, r |-> 0, c |-> 0, v |-> 0,
   err |-> NoError, ret |-> 0, val |-> 0, text |-> <<>>, made |-> FALSE]

Idle == outcome = NoCall

Init ==
  /\ heap = <<>>
  /\ bound = 0
  /\ outcome = NoCall

\* SparseMatrix(rows, cols)
New(rows, cols) ==
  /\ Idle
  /\ bound < MaxObjs
  /\ heap' = Append(heap, SparseMatrix(rows, cols))
  /\ bound' = bound
  /\ outcome' = [NoCall EXCEPT !.op = "new", !.r = rows, !.c = cols, !.ret = bound + 1,
                               !.made = TRUE]

\* heap[id].set(row, col, value); the caller grows a matrix to at most
\* MaxNnz entries
CallSet(id, row, col, value) ==
  LET res == set(heap[id], row, col, value)
  IN /\ Idle
     /\ \/ Cardinality(DOMAIN res.m.data) <= MaxNnz
        \/ Cardinality(DOMAIN res.m.data) <= Cardinality(DOMAIN heap[id].data)
     /\ heap' = [heap EXCEPT ![id] = res.m]
     /\ bound' = bound
     /\ outcome' = [NoCall EXCEPT !.op = "set", !.a = id, !.r = row, !.c = col,
                                  !.v = value, !.err = res.err]

\* heap[id].get(row, col)
CallGet(id, row, col) ==
  /\ Idle
  /\ heap' = heap
  /\ bound' = bound
  /\ outcome' = [NoCall EXCEPT !.op = "get", !.a = id, !.r = row, !.c = col,
                               !.val = get(heap[id], row, col)]

\* What a call that builds a matrix leaves: the result is a new object when
\* the call returns, and nothing is returned when it raises.
Returned(call, res) ==
  /\ heap' = IF res.err = NoError THEN Append(heap, res.m) ELSE heap
  /\ bound' = bound
  /\ outcome' = [call EXCEPT !.err = res.err, !.made = res.made,
                             !.ret = IF res.err = NoError THEN bound + 1 ELSE 0]

\* heap[a] + heap[b] with result = self in place of a new matrix
CallAddInPlace(a, b) ==
  /\ Idle
  /\ \E ordS \in Orders(DOMAIN heap[a].data), ordO \in Orders(DOMAIN heap[b].data) :
       LET res == __add__(heap[a], heap[b], ordS, ordO)
       IN /\ heap' = IF res.err = NoError THEN [heap EXCEPT ![a] = res.m] ELSE heap
          /\ bound' = bound
          /\ outcome' = [NoCall EXCEPT !.op = "add", !.a = a, !.b = b, !.err = res.err,
                                       !.made = FALSE,
                                       !.ret = IF res.err = NoError THEN a ELSE 0]

\* heap[a] + heap[b]
CallAdd(a, b) ==
  /\ Idle
  /\ \E ordS \in Orders(DOMAIN heap[a].data), ordO \in Orders(DOMAIN heap[b].data) :
       Returned([NoCall EXCEPT !.op = "add", !.a = a, !.b = b],
                __add__(heap[a], heap[b], ordS, ordO))

\* heap[a] - heap[b]
CallSub(a, b) ==
  /\ Idle
  /\ \E ordS \in Orders(DOMAIN heap[a].data), ordO \in Orders(DOMAIN heap[b].data) :
       Returned([NoCall EXCEPT !.op = "sub", !.a = a, !.b = b],
                __sub__(heap[a], heap[b], ordS, ordO))

\* heap[a] @ heap[b]
CallMatMul(a, b) ==
  /\ Idle
  /\ \E ordS \in Orders(DOMAIN heap[a].data), ordO \in Orders(DOMAIN heap[b].data) :
       Returned([NoCall EXCEPT !.op = "matmul", !.a = a, !.b = b],
                __matmul__(heap[a], heap[b], ordS, ordO))

\* str(heap[id])
CallStr(id) ==
  /\ Idle
  /\ heap' = heap
  /\ bound' = bound
  /\ outcome' = [NoCall EXCEPT !.op = "str", !.a = id, !.text = __str__(heap[id])]

\* SparseMatrix.load_from(f), f a file holding src
CallLoad(src) ==
  /\ Idle
  /\ Returned([NoCall EXCEPT !.op = "load", !.text = src], load_from(src))

\* f.write(str(heap[a])), then SparseMatrix.load_from(f)
CallLoadSaved ==
  /\ outcome.op = "str"
  /\ Returned([NoCall EXCEPT !.op = "reload", !.a = outcome.a, !.text = outcome.text],
              load_from(outcome.text))

\* The caller binds the object the last call returned to a name.
Keep ==
  /\ outcome.ret # 0
  /\ bound < MaxObjs
  /\ heap' = heap
  /\ bound' = bound + 1
  /\ outcome' = NoCall

\* The caller lets go of whatever the last call returned.
Discard ==
  /\ ~Idle
  /\ heap' = SubSeq(heap, 1, bound)
  /\ bound' = bound
  /\ outcome' = NoCall

Next ==
  \/ \E rows, cols \in Dims : New(rows, cols)
  \/ \E id \in 1..bound, row, col \in Coords, value \in Vals : CallSet(id, row, col, value)
  \/ \E id \in 1..bound, row, col \in Coords : CallGet(id, row, col)
  \/ \E a, b \in 1..bound : CallAdd(a, b)
  \/ \E a, b \in 1..bound : CallSub(a, b)
  \/ \E a, b \in 1..bound : CallMatMul(a, b)
  \/ \E id \in 1..bound : CallStr(id)
  \/ \E src \in SampleTexts : CallLoad(src)
  \/ CallLoadSaved
  \/ Keep
  \/ Discard

Spec == Init /\ [][Next]_vars

\* load_from alone, on every text of Texts.
NextLoad ==
  \/ \E src \in Texts : CallLoad(src)
  \/ Discard

SpecLoad == Init /\ [][NextLoad]_vars

\* ------------------------------------------------------------- properties
InExtents(m, r, c) == 0 <= r /\ r < m.rows /\ 0 <= c /\ c < m.cols

Arith == {"add", "sub", "matmul"}

\* sum over k < n of A[i, k] * B[k, j]
RECURSIVE DotUpTo(_, _, _, _, _)
DotUpTo(A, B, i, j, n) ==
  IF n <= 0 THEN 0 ELSE DotUpTo(A, B, i, j, n - 1) + get(A, i, n - 1) * get(B, n - 1, j)

Dot(A, B, i, j) == DotUpTo(A, B, i, j, A.cols)

\* The value the operation of the last call has at (i, j), entry by entry.
Expected(i, j) ==
  LET A == heap[outcome.a]
      B == heap[outcome.b]
  IN CASE outcome.op = "add" -> get(A, i, j) + get(B, i, j)
       [] outcome.op = "sub" -> get(A, i, j) - get(B, i, j)
       [] outcome.op = "matmul" -> Dot(A, B, i, j)

NoStoredZero ==
  \A id \in 1..Len(heap) : \A k \in DOMAIN heap[id].data : heap[id].data[k] # 0

\* C1: no matrix holds a stored entry of value 0: not after set, load_from or
\* an operation; set(r, c, 0) inside the extents leaves get(r, c) = 0 and no
\* entry at (r, c); a coordinate whose sum, difference or product sum is 0
\* has no entry in the result.
C1_NoStoredZero ==
  /\ NoStoredZero
  /\ (outcome.op = "set" /\ outcome.v = 0
        /\ InExtents(heap[outcome.a], outcome.r, outcome.c))
       => /\ outcome.err = NoError
          /\ <<outcome.r, outcome.c>> \notin DOMAIN heap[outcome.a].data
          /\ get(heap[outcome.a], outcome.r, outcome.c) = 0
  /\ (outcome.op \in Arith /\ outcome.ret # 0)
       => \A i \in 0..(heap[outcome.ret].rows - 1), j \in 0..(heap[outcome.ret].cols - 1) :
            Expected(i, j) = 0 => <<i, j>> \notin DOMAIN heap[outcome.ret].data

\* set(r, c, 0) has acted on a matrix that keeps other entries.
C1_Witness ==
  /\ outcome.op = "set"
  /\ outcome.v = 0
  /\ outcome.err = NoError
  /\ heap[outcome.a].data # EmptyDict
  /\ get(heap[outcome.a], outcome.r, outcome.c) = 0

StoredInExtents ==
  \A id \in 1..Len(heap) : \A k \in DOMAIN heap[id].data : InExtents(heap[id], k[1], k[2])

\* C2: every stored coordinate lies inside the extents of its matrix; the
\* extents are those given to the constructor and no call changes them; set
\* outside the extents raises IndexError and stores nothing.
C2_ExtentsHold ==
  [][/\ StoredInExtents'
     /\ \A id \in 1..Len(heap) :
          id <= Len(heap') =>
            heap'[id].rows = heap[id].rows /\ heap'[id].cols = heap[id].cols
     /\ outcome'.op = "new" =>
          heap'[outcome'.ret].rows = outcome'.r /\ heap'[outcome'.ret].cols = outcome'.c
     /\ outcome'.op = "set" =>
          IF InExtents(heap[outcome'.a], outcome'.r, outcome'.c)
          THEN outcome'.err = NoError
          ELSE outcome'.err = IndexOutOfBounds /\ heap' = heap]_vars

\* set has been refused one row past the last row of a matrix with entries.
C2_Witness ==
  /\ outcome.op = "set"
  /\ outcome.err = IndexOutOfBounds
  /\ outcome.r = heap[outcome.a].rows
  /\ outcome.v # 0
  /\ heap[outcome.a].data # EmptyDict

\* C3, as the specification states it: get outside the extents raises
\* IndexError, and inside them returns the stored value or 0.
C3_GetChecksBounds ==
  outcome.op = "get" =>
    IF InExtents(heap[outcome.a], outcome.r, outcome.c)
    THEN /\ outcome.err = NoError
         /\ outcome.val = IF <<outcome.r, outcome.c>> \in DOMAIN heap[outcome.a].data
                          THEN heap[outcome.a].data[<<outcome.r, outcome.c>>]
                          ELSE 0
    ELSE outcome.err = IndexOutOfBounds

IsIdentity(B) ==
  /\ B.rows = B.cols
  /\ DOMAIN B.data = {<<k, k>> : k \in 0..(B.rows - 1)}
  /\ \A k \in DOMAIN B.data : B.data[k] = 1

\* C4: A @ B with A.cols = B.rows returns a matrix of A.rows by B.cols whose
\* value at every (i, j) is the sum over k of A[i, k] * B[k, j], whatever the
\* order in which the entries of A and B are visited, with exactly the
\* coordinates of the non-zero sums stored; A @ Z for an empty Z is empty and
\* A @ Identity is A.
C4_MatMulIsDotProduct ==
  (outcome.op = "matmul" /\ heap[outcome.a].cols = heap[outcome.b].rows) =>
    LET A == heap[outcome.a]
        B == heap[outcome.b]
    IN /\ outcome.err = NoError
       /\ outcome.ret # 0
       /\ LET R == heap[outcome.ret]
          IN /\ R.rows = A.rows
             /\ R.cols = B.cols
             /\ \A i \in 0..(R.rows - 1), j \in 0..(R.cols - 1) : get(R, i, j) = Dot(A, B, i, j)
             /\ DOMAIN R.data =
                  {k \in (0..(R.rows - 1)) \X (0..(R.cols - 1)) : Dot(A, B, k[1], k[2]) # 0}
             /\ \A ordS \in Orders(DOMAIN A.data), ordO \in Orders(DOMAIN B.data) :
                  __matmul__(A, B, ordS, ordO).m = R
             /\ B.data = EmptyDict => R.data = EmptyDict
             /\ IsIdentity(B) => R = A

\* A product has been returned with an entry that sums two non-zero terms.
C4_Witness ==
  /\ outcome.op = "matmul"
  /\ outcome.ret # 0
  /\ \E i, j, k1, k2 \in Dims :
       /\ k1 # k2
       /\ get(heap[outcome.a], i, k1) * get(heap[outcome.b], k1, j) # 0
       /\ get(heap[outcome.a], i, k2) * get(heap[outcome.b], k2, j) # 0
       /\ get(heap[outcome.ret], i, j) # 0

SameShape(A, B) == A.rows = B.rows /\ A.cols = B.cols

\* What a call that raised on its dimension test leaves behind.
NothingMade ==
  /\ outcome'.ret = 0
  /\ ~outcome'.made
  /\ heap' = heap
  /\ bound' = bound

\* C5: + and - of matrices of different shapes raise "Matrix dimensions must
\* match", @ with A.cols # B.rows raises "Matrix dimensions not aligned for
\* multiplication"; in both cases no result matrix has been constructed,
\* nothing is returned and the operands are as they were.
C5_MismatchRaisesFirst ==
  [][/\ (outcome'.op \in {"add", "sub"}
           /\ ~SameShape(heap[outcome'.a], heap[outcome'.b]))
          => outcome'.err = DimensionMismatch /\ NothingMade
     /\ (outcome'.op = "matmul" /\ heap[outcome'.a].cols # heap[outcome'.b].rows)
          => outcome'.err = DimensionAlignmentMismatch /\ NothingMade]_vars

\* + has been refused for two matrices with entries that differ only in
\* their number of columns.
C5_Witness ==
  /\ outcome.op = "add"
  /\ outcome.err = DimensionMismatch
  /\ heap[outcome.a].rows = heap[outcome.b].rows
  /\ heap[outcome.a].cols # heap[outcome.b].cols
  /\ heap[outcome.a].data # EmptyDict
  /\ heap[outcome.b].data # EmptyDict

\* C6: +, - and @ leave every matrix the caller holds as it was, also when
\* both operands are the same object and when the call raises; what they
\* return is a new object, none of those that existed before the call; and a
\* later set on one object leaves every other object as it was.
C6_OperandsUntouched ==
  [][/\ outcome'.op \in Arith =>
          /\ Len(heap') >= Len(heap)
          /\ \A id \in 1..Len(heap) : heap'[id] = heap[id]
          /\ IF outcome'.ret = 0 THEN heap' = heap
             ELSE /\ outcome'.ret \notin 1..Len(heap)
                  /\ outcome'.ret = Len(heap')
                  /\ Len(heap') = Len(heap) + 1
     /\ outcome'.op = "set" =>
          /\ Len(heap') = Len(heap)
          /\ \A id \in 1..Len(heap) : id # outcome'.a => heap'[id] = heap[id]]_vars

\* A + A has returned for a matrix A with entries.
C6_Witness ==
  /\ outcome.op = "add"
  /\ outcome.a = outcome.b
  /\ outcome.ret # 0
  /\ heap[outcome.a].data # EmptyDict
  /\ heap[outcome.ret].data # heap[outcome.a].data

\* C7: for A and B of equal shape, (A + B) - B and (A - B) + B have the
\* extents and the entries of A, also where A + B or A - B has no entry
\* because the values cancelled.
C7_AddSubRoundTrip ==
  (outcome.op \in {"add", "sub"} /\ outcome.ret # 0) =>
    LET A == heap[outcome.a]
        B == heap[outcome.b]
        R == heap[outcome.ret]
    IN \A ordS \in Orders(DOMAIN R.data), ordO \in Orders(DOMAIN B.data) :
         LET back == IF outcome.op = "add" THEN __sub__(R, B, ordS, ordO)
                     ELSE __add__(R, B, ordS, ordO)
         IN /\ back.err = NoError
            /\ back.m.rows = A.rows
            /\ back.m.cols = A.cols
            /\ back.m.data = A.data

\* A + B has returned with no entry at a coordinate where both A and B have
\* one, next to a coordinate where it has an entry.
C7_Witness ==
  /\ outcome.op = "add"
  /\ outcome.ret # 0
  /\ heap[outcome.ret].data # EmptyDict
  /\ \E k \in DOMAIN heap[outcome.a].data :
       k \in DOMAIN heap[outcome.b].data /\ k \notin DOMAIN heap[outcome.ret].data

\* C8: str gives rows=<rows>, cols=<cols> and one line "(r, c, v)" per
\* stored entry, by ascending row and then ascending column, none with value
\* 0; load_from of that text succeeds and returns a matrix with the same
\* extents and the same entries.
C8_RoundTrip ==
  /\ outcome.op = "str" =>
       LET M == heap[outcome.a]
           lines == split(outcome.text, Newline)
           n == Cardinality(DOMAIN M.data)
           t == [i \in 1..n |-> ParseEntry(lines[i + 2])]
           back == load_from(outcome.text)
       IN /\ Len(lines) = n + 2
          /\ lines[1] = RowsPrefix \o FormatInt(M.rows)
          /\ lines[2] = ColsPrefix \o FormatInt(M.cols)
          /\ \A i \in 1..n :
               /\ t[i].ok
               /\ t[i].v # 0
               /\ <<t[i].r, t[i].c>> \in DOMAIN M.data
               /\ M.data[<<t[i].r, t[i].c>>] = t[i].v
               /\ lines[i + 2] = EntryLine(t[i].r, t[i].c, t[i].v)
          /\ \A i \in 1..(n - 1) :
               t[i].r < t[i + 1].r \/ (t[i].r = t[i + 1].r /\ t[i].c < t[i + 1].c)
          /\ back.err = NoError
          /\ back.m = M
  /\ outcome.op = "reload" =>
       /\ outcome.err = NoError
       /\ outcome.ret # 0
       /\ heap[outcome.ret] = heap[outcome.a]

\* A matrix with two entries, one of them below -9, has been written and
\* read back.
C8_Witness ==
  /\ outcome.op = "reload"
  /\ outcome.ret # 0
  /\ Cardinality(DOMAIN heap[outcome.a].data) >= 2
  /\ \E k \in DOMAIN heap[outcome.a].data : heap[outcome.a].data[k] < -9

\* A header line as the format states it: the prefix, then digits only.
StrictHeaderLine(line, prefix) ==
  /\ startswith(line, prefix)
  /\ Len(line) > Len(prefix)
  /\ \A i \in (Len(prefix) + 1)..Len(line) : line[i] \in DigitSet

StrictHeader(src) ==
  LET lines == ReadLines(src)
  IN /\ Len(lines) >= 2
     /\ StrictHeaderLine(lines[1], RowsPrefix)
     /\ StrictHeaderLine(lines[2], ColsPrefix)

\* C9, as the specification states it: a file whose first two lines are not
\* rows=<digits> and cols=<digits> is refused with "Input file has wrong
\* format" and no matrix is returned, so no loaded matrix has a negative
\* extent.
C9_StrictHeaderOnly ==
  (outcome.op = "load" /\ outcome.text # Unreadable) =>
    /\ ~StrictHeader(outcome.text) => outcome.err = MalformedHeader /\ outcome.ret = 0
    /\ outcome.ret # 0 => heap[outcome.ret].rows >= 0 /\ heap[outcome.ret].cols >= 0

\* An entry line is malformed (brackets, number of fields, a field that is
\* no integer), outside the extents of the header, or valid.
LineClass(entry, num_rows, num_cols) ==
  LET t == ParseEntry(entry)
  IN IF ~(startswith(entry, <<"(">>) /\ endswith(entry, <<")">>)) \/ ~t.ok THEN "malformed"
     ELSE IF ~(0 <= t.r /\ t.r < num_rows /\ 0 <= t.c /\ t.c < num_cols) THEN "outside"
     ELSE "valid"

\* The class of the first entry line of src that is not valid ("valid" when
\* all are), for a file whose header load_from accepts.
FirstBad(src) ==
  LET lines == ReadLines(src)
      h == ParseHeader(lines)
      bad == {i \in 3..Len(lines) : LineClass(lines[i], h.num_rows, h.num_cols) # "valid"}
  IN IF bad = {} THEN "valid"
     ELSE LineClass(lines[SetMin(bad)], h.num_rows, h.num_cols)

\* The value of the last entry line for (r, c), 0 when there is none.
RECURSIVE LastValue(_, _, _)
LastValue(entries, r, c) ==
  IF entries = <<>> THEN 0
  ELSE LET t == ParseEntry(entries[Len(entries)])
       IN IF t.r = r /\ t.c = c THEN t.v
          ELSE LastValue(SubSeq(entries, 1, Len(entries) - 1), r, c)

HeaderAccepted(src) == src # Unreadable /\ ParseHeader(ReadLines(src)).ok

\* A load that raised returned nothing; a load of valid lines returned a
\* matrix that holds, at each coordinate, the value of its last line.
LoadRefused == outcome.ret = 0 /\ Len(heap) = bound

LastWins ==
  /\ outcome.err = NoError
  /\ outcome.ret # 0
  /\ LET R == heap[outcome.ret]
         lines == ReadLines(outcome.text)
     IN \A r \in 0..(R.rows - 1), c \in 0..(R.cols - 1) :
          get(R, r, c) = LastValue(SubSeq(lines, 3, Len(lines)), r, c)

====
